---- MODULE Spec2Model ----
(***************************************************************************)
(* Student / Course repository (src/db.py): the course-list normalizer,    *)
(* the course registrar, the enrollment synchronizer and the CRUD          *)
(* operations, over a relational store of four tables.                     *)
(*                                                                         *)
(* Text is modelled as a sequence of one-character strings, so that        *)
(* split / strip / casefold / join are computed character by character.    *)
(***************************************************************************)
EXTENDS Integers, Sequences, FiniteSets, TLC

VARIABLES Student, StudentDetails, Course, StudentCourse, autoInc,
          csvIn, normOut, calls, observed, lastUpdate

vars == <<Student, StudentDetails, Course, StudentCourse, autoInc,
          csvIn, normOut, calls, observed, lastUpdate>>

(***************************************************************************)
(* Bounds                                                                  *)
(***************************************************************************)
\* longest raw CSV text enumerated for the normalizer
MaxLen == 5
\* largest CourseID the AUTO_INCREMENT counter hands out
MaxCourseID == 2

(***************************************************************************)
(* Text                                                                    *)
(***************************************************************************)
Letters == {"a", "A", "b"}
Chars == Letters \cup {" ", ","}

\* SQL NULL / Python None
NULL == <<"NULL">>

\* str.casefold on one character
FoldChar(c) == CASE c = "A" -> "a" [] OTHER -> c

casefold(s) == [i \in 1..Len(s) |-> FoldChar(s[i])]

IsSpace(c) == c = " "

RECURSIVE lstrip(_)
lstrip(s) == IF s # <<>> /\ IsSpace(Head(s)) THEN lstrip(Tail(s)) ELSE s

RECURSIVE rstrip(_)
rstrip(s) ==
  IF s # <<>> /\ IsSpace(s[Len(s)]) THEN rstrip(SubSeq(s, 1, Len(s) - 1)) ELSE s

\* a plausible slip: the token kept as split left it
StripNothing(s) == s

\* str.strip()
strip(s) == rstrip(lstrip(s))

\* str.split(","): always at least one part, parts keep their blanks
RECURSIVE split(_)
split(s) ==
  IF \A i \in 1..Len(s) : s[i] # ","
  THEN <<s>>
  ELSE LET i == CHOOSE k \in 1..Len(s) :
                  s[k] = "," /\ \A j \in 1..(k - 1) : s[j] # ","
       IN  <<SubSeq(s, 1, i - 1)>> \o split(SubSeq(s, i + 1, Len(s)))

\* ", ".join(names)
RECURSIVE join(_)
join(names) ==
  IF names = <<>> THEN <<>>
  ELSE IF Len(names) = 1 THEN names[1]
  ELSE names[1] \o <<",", " ">> \o join(Tail(names))

\* the loop of _normalize_courses over parts[i..], with dedup and seen so far
RECURSIVE DedupLoop(_, _, _, _)
DedupLoop(parts, i, dedup, seen) ==
  IF i > Len(parts) THEN dedup
  ELSE LET p == parts[i]
           key == casefold(p)
       IN  IF p = <<>> THEN DedupLoop(parts, i + 1, dedup, seen)
           ELSE IF key \in seen THEN DedupLoop(parts, i + 1, dedup, seen)
           ELSE DedupLoop(parts, i + 1, Append(dedup, p), seen \cup {key})

\* a plausible slip: the seen-set keyed on the raw token, not its casefold
NormalizeExactDedup(courses) ==
  LET raw == split(IF courses = NULL THEN <<>> ELSE courses)
      parts == [i \in 1..Len(raw) |-> strip(raw[i])]
      RECURSIVE Loop(_, _, _)
      Loop(i, dedup, seen) ==
        IF i > Len(parts) THEN dedup
        ELSE IF parts[i] = <<>> \/ parts[i] \in seen THEN Loop(i + 1, dedup, seen)
        ELSE Loop(i + 1, Append(dedup, parts[i]), seen \cup {parts[i]})
  IN  Loop(1, <<>>, {})

normalize_courses(courses) ==
  LET raw == split(IF courses = NULL THEN <<>> ELSE courses)
      parts == [i \in 1..Len(raw) |-> strip(raw[i])]
  IN  DedupLoop(parts, 1, <<>>, {})

(***************************************************************************)
(* The normalizer on its own: every raw text up to MaxLen characters       *)
(***************************************************************************)
RECURSIVE TextsUpTo(_)
TextsUpTo(n) ==
  IF n = 0 THEN {<<>>}
  ELSE LET shorter == TextsUpTo(n - 1)
       IN  shorter \cup {Append(t, c) : t \in {u \in shorter : Len(u) = n - 1}, c \in Chars}

\* the value of normOut before the normalizer ran: no list of names it returns
NotRun == <<<<"NOTRUN">>>>

\* the connections that run set_student_courses statement by statement
Callers == {1, 2}
\* a connection that has not called yet
IdleCall == [pc |-> "idle", sid |-> 0, courses |-> <<>>, i |-> 1, cid |-> 0, at |-> "none"]
\* what a reader holds before its first read
NothingRead == [rows |-> -1, during |-> 0]
\* no statement-level call in progress, nothing read, no UPDATE executed
NoCalls ==
  /\ calls = [c \in Callers |-> IdleCall]
  /\ observed = NothingRead
  /\ lastUpdate = 0

InitNorm ==
  /\ Student = {} /\ StudentDetails = {} /\ Course = {} /\ StudentCourse = {}
  /\ autoInc = 1
  /\ csvIn \in TextsUpTo(MaxLen) \cup {NULL}
  /\ normOut = NotRun
  /\ NoCalls

Normalize ==
  /\ normOut = NotRun
  /\ normOut' = normalize_courses(csvIn)
  /\ UNCHANGED <<Student, StudentDetails, Course, StudentCourse, autoInc, csvIn>>
  /\ UNCHANGED <<calls, observed, lastUpdate>>

NextNorm == Normalize

SpecNorm == InitNorm /\ [][NextNorm]_vars

(***************************************************************************)
(* The store: four tables and the AUTO_INCREMENT counter of Course.        *)
(* A database value d is a record of the five; each SQL statement of       *)
(* src/db.py is an operator from a database value to the next one.         *)
(***************************************************************************)
DB == [Student |-> Student, StudentDetails |-> StudentDetails,
       Course |-> Course, StudentCourse |-> StudentCourse, autoInc |-> autoInc]

EmptyDB == [Student |-> {}, StudentDetails |-> {}, Course |-> {},
            StudentCourse |-> {}, autoInc |-> 1]

\* comparison of two CourseName values by the column's collation: exact string
NameEq(a, b) == a = b

\* code point of a character, for ORDER BY under the same collation
CharCode(c) ==
  CASE c = " " -> 32 [] c = "," -> 44 [] c = "A" -> 65 [] c = "a" -> 97 [] c = "b" -> 98

NameLess(a, b) ==
  \E i \in 1..(Len(a) + 1) :
    /\ \A j \in 1..(i - 1) : j <= Len(b) /\ a[j] = b[j]
    /\ \/ i = Len(a) + 1 /\ Len(b) >= i
       \/ i <= Len(a) /\ i <= Len(b) /\ CharCode(a[i]) < CharCode(b[i])

HasStudent(d, sid) == \E s \in d.Student : s.StudentID = sid
HasCourse(d, cid) == \E c \in d.Course : c.CourseID = cid

\* outcome of an operation: the store it leaves, the error it raised, its value
Ok(d) == [db |-> d, err |-> "none", ret |-> 0]
Raise(d, e) == [db |-> d, err |-> e, ret |-> 0]
Return(d, v) == [db |-> d, err |-> "none", ret |-> v]

\* a plausible slip: a plain INSERT into a table without the unique key
InsertCourseAlways(d, name) ==
  [d EXCEPT !.Course = @ \cup {[CourseID |-> d.autoInc, CourseName |-> name]},
            !.autoInc = @ + 1]

\* INSERT IGNORE INTO Course (CourseName) VALUES (name)
InsertIgnoreCourse(d, name) ==
  IF \E c \in d.Course : NameEq(c.CourseName, name) THEN d
  ELSE [d EXCEPT !.Course = @ \cup {[CourseID |-> d.autoInc, CourseName |-> name]},
                 !.autoInc = @ + 1]

\* SELECT CourseID FROM Course WHERE CourseName = name: the rows found
SelectCourseID(d, name) == {c.CourseID : c \in {x \in d.Course : NameEq(x.CourseName, name)}}

\* a plausible slip: the lookup without the insert before it
EnsureCourseNoInsert(d, name) ==
  LET row == SelectCourseID(d, name)
  IN  IF row = {} THEN Raise(d, "StateError")
      ELSE Return(d, CHOOSE cid \in row : TRUE)

ensure_course(d, name) ==
  LET d1 == InsertIgnoreCourse(d, name)
      row == SelectCourseID(d1, name)
  IN  IF row = {} THEN Raise(d1, "StateError")
      ELSE Return(d1, CHOOSE cid \in row : TRUE)

\* DELETE FROM StudentCourse WHERE StudentID = sid
\* a plausible slip: the DELETE left out of the call
DeleteEnrollmentsSkipped(d, sid) == d

DeleteEnrollments(d, sid) ==
  [d EXCEPT !.StudentCourse = {sc \in @ : sc.StudentID # sid}]

\* INSERT IGNORE INTO StudentCourse (StudentID, CourseID): a duplicate pair or a
\* pair whose student or course row is missing is skipped
\* a plausible slip: the two values bound to the columns in the other order
InsertEnrollmentSwapped(d, sid, cid) ==
  IF HasStudent(d, cid) /\ HasCourse(d, sid)
  THEN [d EXCEPT !.StudentCourse = @ \cup {[StudentID |-> cid, CourseID |-> sid]}]
  ELSE d

InsertIgnoreEnrollment(d, sid, cid) ==
  IF HasStudent(d, sid) /\ HasCourse(d, cid)
  THEN [d EXCEPT !.StudentCourse = @ \cup {[StudentID |-> sid, CourseID |-> cid]}]
  ELSE d

\* UPDATE StudentDetails SET CourseS = text WHERE StudentID = sid
\* a plausible slip: a WHERE clause that matches no row
UpdateCourseSNoMatch(d, sid, text) == d

UpdateCourseS(d, sid, text) ==
  [d EXCEPT !.StudentDetails =
     {IF r.StudentID = sid THEN [r EXCEPT !.CourseS = text] ELSE r : r \in @}]

\* a plausible slip: the loop left after its first course
EnrollFirstOnly(d, sid, courses, i) ==
  IF i > Len(courses) THEN Ok(d)
  ELSE LET e == ensure_course(d, courses[i])
       IN  IF e.err # "none" THEN e ELSE Ok(InsertIgnoreEnrollment(e.db, sid, e.ret))

\* the for loop of set_student_courses over courses[i..]
RECURSIVE EnrollLoop(_, _, _, _)
EnrollLoop(d, sid, courses, i) ==
  IF i > Len(courses) THEN Ok(d)
  ELSE LET e == ensure_course(d, courses[i])
       IN  IF e.err # "none" THEN e
           ELSE EnrollLoop(InsertIgnoreEnrollment(e.db, sid, e.ret), sid, courses, i + 1)

\* a plausible slip: the rebuild without the DELETE (a diff, not a replace)
SetStudentCoursesNoDelete(d, sid, courses_csv) ==
  LET courses == normalize_courses(courses_csv)
      r == EnrollLoop(d, sid, courses, 1)
  IN  IF r.err # "none" THEN r ELSE Ok(UpdateCourseS(r.db, sid, join(courses)))

\* a plausible slip: a cleanup after the rebuild that drops the courses nobody
\* is enrolled in any more
SetStudentCoursesPruning(d, sid, courses_csv) ==
  LET courses == normalize_courses(courses_csv)
      r == EnrollLoop(DeleteEnrollments(d, sid), sid, courses, 1)
      u == UpdateCourseS(r.db, sid, join(courses))
  IN  IF r.err # "none" THEN r
      ELSE Ok([u EXCEPT !.Course =
                 {c \in @ : \E sc \in u.StudentCourse : sc.CourseID = c.CourseID}])

set_student_courses(d, sid, courses_csv) ==
  LET courses == normalize_courses(courses_csv)
      r == EnrollLoop(DeleteEnrollments(d, sid), sid, courses, 1)
  IN  IF r.err # "none" THEN r ELSE Ok(UpdateCourseS(r.db, sid, join(courses)))

\* a plausible slip: INSERT IGNORE, which keeps an existing details row as it is
UpsertDetailsInsertIgnore(d, sid, phone, courses_csv) ==
  IF \E r \in d.StudentDetails : r.StudentID = sid THEN d
  ELSE [d EXCEPT !.StudentDetails =
          @ \cup {[StudentID |-> sid, PhoneNumber |-> phone, CourseS |-> courses_csv]}]

\* INSERT INTO StudentDetails ... ON DUPLICATE KEY UPDATE PhoneNumber, CourseS
UpsertDetails(d, sid, phone, courses_csv) ==
  [d EXCEPT !.StudentDetails =
     {r \in @ : r.StudentID # sid}
       \cup {[StudentID |-> sid, PhoneNumber |-> phone, CourseS |-> courses_csv]}]

upsert_student_details(d, sid, phone, courses_csv) ==
  IF ~HasStudent(d, sid) THEN Raise(d, "IntegrityError")
  ELSE set_student_courses(UpsertDetails(d, sid, phone, courses_csv), sid, courses_csv)

\* a plausible slip: REPLACE INTO Student, which overwrites an existing row
InsertStudentReplace(d, sid, prof, phone, courses_csv) ==
  upsert_student_details(
    [d EXCEPT !.Student = {s \in @ : s.StudentID # sid}
                            \cup {[StudentID |-> sid, Name |-> prof.Name,
                                   Age |-> prof.Age, Email |-> prof.Email]}],
    sid, phone, courses_csv)

insert_student(d, sid, prof, phone, courses_csv) ==
  IF HasStudent(d, sid) THEN Raise(d, "IntegrityError")
  ELSE upsert_student_details(
         [d EXCEPT !.Student = @ \cup {[StudentID |-> sid, Name |-> prof.Name,
                                        Age |-> prof.Age, Email |-> prof.Email]}],
         sid, phone, courses_csv)

\* a plausible slip: the UPDATE without its WHERE clause
UpdateStudentNoWhere(d, sid, prof) ==
  Ok([d EXCEPT !.Student =
        {[s EXCEPT !.Name = prof.Name, !.Age = prof.Age, !.Email = prof.Email] : s \in @}])

update_student(d, sid, prof) ==
  Ok([d EXCEPT !.Student =
        {IF s.StudentID = sid
         THEN [s EXCEPT !.Name = prof.Name, !.Age = prof.Age, !.Email = prof.Email]
         ELSE s : s \in @}])

\* ON DELETE CASCADE of the foreign keys to Student: the rows left without parent
CascadeFromStudent(d) ==
  [d EXCEPT !.StudentDetails = {r \in @ : HasStudent(d, r.StudentID)},
            !.StudentCourse = {sc \in @ : HasStudent(d, sc.StudentID)}]

\* ON DELETE CASCADE of the foreign key to Course
CascadeFromCourse(d) ==
  [d EXCEPT !.StudentCourse = {sc \in @ : HasCourse(d, sc.CourseID)}]

\* a plausible slip: the DELETE aimed at StudentDetails, the Student row kept
DeleteStudentDetailsOnly(d, sid) ==
  Ok([d EXCEPT !.StudentDetails = {r \in @ : r.StudentID # sid}])

\* DELETE FROM Student WHERE StudentID = sid
delete_student(d, sid) ==
  Ok(CascadeFromStudent([d EXCEPT !.Student = {s \in @ : s.StudentID # sid}]))

create_course(d, course_name) == ensure_course(d, strip(course_name))

\* a plausible slip: the rename carried into the legacy text of the enrolled
\* students, whose CourseS is rewritten to the new name
RenameCourseIntoLegacy(d, cid, new_name) ==
  LET n == strip(new_name)
  IN  IF /\ HasCourse(d, cid)
         /\ \E c \in d.Course : c.CourseID # cid /\ NameEq(c.CourseName, n)
      THEN Raise(d, "IntegrityError")
      ELSE Ok([d EXCEPT
             !.Course =
               {IF c.CourseID = cid THEN [c EXCEPT !.CourseName = n] ELSE c : c \in @},
             !.StudentDetails =
               {IF [StudentID |-> r.StudentID, CourseID |-> cid] \in d.StudentCourse
                THEN [r EXCEPT !.CourseS = n] ELSE r : r \in @}])

\* UPDATE Course SET CourseName = ... WHERE CourseID = cid, under the unique key
rename_course(d, cid, new_name) ==
  LET n == strip(new_name)
  IN  IF /\ HasCourse(d, cid)
         /\ \E c \in d.Course : c.CourseID # cid /\ NameEq(c.CourseName, n)
      THEN Raise(d, "IntegrityError")
      ELSE Ok([d EXCEPT !.Course =
                 {IF c.CourseID = cid THEN [c EXCEPT !.CourseName = n] ELSE c : c \in @}])

\* a plausible slip: the DELETE without its WHERE clause
DeleteCourseNoWhere(d, cid) == Ok(CascadeFromCourse([d EXCEPT !.Course = {}]))

\* DELETE FROM Course WHERE CourseID = cid
delete_course(d, cid) ==
  Ok(CascadeFromCourse([d EXCEPT !.Course = {c \in @ : c.CourseID # cid}]))

(***************************************************************************)
(* Queries                                                                 *)
(***************************************************************************)
\* a plausible slip: ORDER BY c.CourseName DESC
RECURSIVE SortNamesDesc(_)
SortNamesDesc(S) ==
  IF S = {} THEN <<>>
  ELSE LET m == CHOOSE x \in S : \A y \in S \ {x} : NameLess(y, x)
       IN  <<m>> \o SortNamesDesc(S \ {m})

\* the names of S in ascending order (ORDER BY c.CourseName)
RECURSIVE SortNames(_)
SortNames(S) ==
  IF S = {} THEN <<>>
  ELSE LET m == CHOOSE x \in S : \A y \in S \ {x} : NameLess(x, y)
       IN  <<m>> \o SortNames(S \ {m})

\* the CourseName values joined to student sid through StudentCourse and Course
EnrolledNames(d, sid) ==
  {c.CourseName : c \in {x \in d.Course :
      \E sc \in d.StudentCourse : sc.StudentID = sid /\ sc.CourseID = x.CourseID}}

\* GROUP_CONCAT(DISTINCT c.CourseName ORDER BY c.CourseName SEPARATOR ', '):
\* NULL over no joined row
GroupConcat(d, sid) ==
  IF EnrolledNames(d, sid) = {} THEN NULL ELSE join(SortNames(EnrolledNames(d, sid)))

\* LEFT JOIN StudentDetails: the column of the details row, NULL without one
DetailsColumn(d, sid, col) ==
  IF \E r \in d.StudentDetails : r.StudentID = sid
  THEN (CHOOSE r \in d.StudentDetails : r.StudentID = sid)[col]
  ELSE NULL

\* a plausible slip: the aggregate alone, without the fallback to CourseS
CoursesColumnNoFallback(d, sid) == GroupConcat(d, sid)

\* a plausible slip: COALESCE with its arguments swapped, the legacy text first
CoursesColumnLegacyFirst(d, sid) ==
  IF DetailsColumn(d, sid, "CourseS") # NULL THEN DetailsColumn(d, sid, "CourseS")
  ELSE GroupConcat(d, sid)

\* COALESCE(NULLIF(GROUP_CONCAT(...), ''), d.CourseS) AS Courses
CoursesColumn(d, sid) ==
  LET g == GroupConcat(d, sid)
      n == IF g = <<>> THEN NULL ELSE g
  IN  IF n # NULL THEN n ELSE DetailsColumn(d, sid, "CourseS")

StudentRow(d, s) ==
  [StudentID |-> s.StudentID, Name |-> s.Name, Age |-> s.Age, Email |-> s.Email,
   PhoneNumber |-> DetailsColumn(d, s.StudentID, "PhoneNumber"),
   Courses |-> CoursesColumn(d, s.StudentID)]

\* the rows of S by descending StudentID (ORDER BY s.StudentID DESC)
RECURSIVE RowsDesc(_, _)
RowsDesc(d, S) ==
  IF S = {} THEN <<>>
  ELSE LET m == CHOOSE x \in S : \A y \in S : y.StudentID <= x.StudentID
       IN  <<StudentRow(d, m)>> \o RowsDesc(d, S \ {m})

\* student_id = None of list_students: no WHERE clause (ids are positive)
NoStudentID == 0

\* the None that get_student returns for no row
None == [None |-> TRUE]

list_students(d, student_id) ==
  RowsDesc(d, IF student_id = NoStudentID THEN d.Student
              ELSE {s \in d.Student : s.StudentID = student_id})

get_student(d, student_id) ==
  LET rows == list_students(d, student_id)
  IN  IF rows # <<>> THEN rows[1] ELSE None

\* list_courses(): COUNT(sc.StudentID) per course, ORDER BY c.CourseName
list_courses(d) ==
  LET names == SortNames({c.CourseName : c \in d.Course})
      row(n) == CHOOSE c \in d.Course : c.CourseName = n
  IN  [i \in 1..Len(names) |->
         [CourseID |-> row(names[i]).CourseID, CourseName |-> names[i],
          StudentCount |->
            Cardinality({sc \in d.StudentCourse : sc.CourseID = row(names[i]).CourseID})]]

(***************************************************************************)
(* The repository as a state machine: one action per public operation,     *)
(* each running its whole statement sequence against the store.            *)
(***************************************************************************)
StudentIDs == {1, 2}
Profiles == {[Name |-> "Alice", Age |-> 20, Email |-> "a@x.com"],
             [Name |-> "Bob", Age |-> 21, Email |-> "b@x.com"]}
\* phone numbers are opaque text, held as one-element sequences
Phones == {<<"555-1234">>}
\* the phone numbers a single call is examined with
AnyPhone == Phones \cup {<<"555-9999">>}
\* raw course lists: None, "", "a", "A,a", "b, a"
CsvInputs == {NULL, <<>>, <<"a">>, <<"A", ",", "a">>, <<"b", ",", " ", "a">>}
\* names given to ensure_course
EnsureNames == {<<"A">>}
\* raw names given to create_course: " b"
CreateNames == {<<" ", "b">>}
\* raw names given to rename_course: "", "A "
RenameNames == {<<>>, <<"A", " ">>}
CourseIDs == 1..MaxCourseID

Init ==
  /\ Student = {} /\ StudentDetails = {} /\ Course = {} /\ StudentCourse = {}
  /\ autoInc = 1
  /\ csvIn = NULL
  /\ normOut = NotRun
  /\ NoCalls

\* the AUTO_INCREMENT counter is capped: a call that would pass the cap is not taken
Capped(r) == r.db.autoInc <= MaxCourseID + 1

\* the store after a call with outcome r (an error leaves what was written before it)
Commit(r) ==
  /\ Student' = r.db.Student
  /\ StudentDetails' = r.db.StudentDetails
  /\ Course' = r.db.Course
  /\ StudentCourse' = r.db.StudentCourse
  /\ autoInc' = r.db.autoInc
  /\ UNCHANGED <<csvIn, normOut, calls, observed, lastUpdate>>

EnsureCourse ==
  \E name \in EnsureNames :
    /\ Capped(ensure_course(DB, name))
    /\ Commit(ensure_course(DB, name))

SetStudentCourses ==
  \E sid \in StudentIDs, csv \in CsvInputs :
    /\ Capped(set_student_courses(DB, sid, csv))
    /\ Commit(set_student_courses(DB, sid, csv))

UpsertStudentDetails ==
  \E sid \in StudentIDs, phone \in Phones, csv \in CsvInputs :
    /\ Capped(upsert_student_details(DB, sid, phone, csv))
    /\ Commit(upsert_student_details(DB, sid, phone, csv))

InsertStudent ==
  \E sid \in StudentIDs, prof \in Profiles, phone \in Phones, csv \in CsvInputs :
    /\ Capped(insert_student(DB, sid, prof, phone, csv))
    /\ Commit(insert_student(DB, sid, prof, phone, csv))

UpdateStudent ==
  \E sid \in StudentIDs, prof \in Profiles :
    /\ Capped(update_student(DB, sid, prof))
    /\ Commit(update_student(DB, sid, prof))

DeleteStudent ==
  \E sid \in StudentIDs :
    /\ Capped(delete_student(DB, sid))
    /\ Commit(delete_student(DB, sid))

CreateCourse ==
  \E name \in CreateNames :
    /\ Capped(create_course(DB, name))
    /\ Commit(create_course(DB, name))

RenameCourse ==
  \E cid \in CourseIDs, name \in RenameNames :
    /\ Capped(rename_course(DB, cid, name))
    /\ Commit(rename_course(DB, cid, name))

DeleteCourse ==
  \E cid \in CourseIDs :
    /\ Capped(delete_course(DB, cid))
    /\ Commit(delete_course(DB, cid))

Next ==
  \/ EnsureCourse
  \/ SetStudentCourses
  \/ UpsertStudentDetails
  \/ InsertStudent
  \/ UpdateStudent
  \/ DeleteStudent
  \/ CreateCourse
  \/ RenameCourse
  \/ DeleteCourse

Spec == Init /\ [][Next]_vars

(***************************************************************************)
(* set_student_courses statement by statement: two connections that each   *)
(* call it once for the same student, a statement that may fail, and a     *)
(* reader that counts the student's StudentCourse rows between statements. *)
(* Every statement commits on its own (no transaction spans the call).     *)
(***************************************************************************)
\* the student the calls are for, enrolled in "a" by insert_student
StmtStudents == {1}
StmtInitDB ==
  insert_student(EmptyDB, 1, [Name |-> "Alice", Age |-> 20, Email |-> "a@x.com"],
                 <<"555-1234">>, <<"a">>).db
\* raw course lists given to the calls: "", "b", "b, A"
StmtCsv == {<<>>, <<"b">>, <<"b", ",", " ", "A">>}

\* the store after one statement
Store(d) ==
  /\ Student' = d.Student
  /\ StudentDetails' = d.StudentDetails
  /\ Course' = d.Course
  /\ StudentCourse' = d.StudentCourse
  /\ autoInc' = d.autoInc

InitStmt ==
  /\ Student = StmtInitDB.Student
  /\ StudentDetails = StmtInitDB.StudentDetails
  /\ Course = StmtInitDB.Course
  /\ StudentCourse = StmtInitDB.StudentCourse
  /\ autoInc = StmtInitDB.autoInc
  /\ csvIn = NULL
  /\ normOut = NotRun
  /\ NoCalls

\* the position after the loop body for course i, or before the first course
LoopHead(courses, i) == IF i > Len(courses) THEN "update" ELSE "ensure_insert"

\* the call is made: the list is normalized before any statement runs
StmtCall(c) ==
  \E sid \in StmtStudents, csv \in StmtCsv :
    /\ calls[c].pc = "idle"
    /\ calls' = [calls EXCEPT ![c] = [pc |-> "delete", sid |-> sid,
                                      courses |-> normalize_courses(csv),
                                      i |-> 1, cid |-> 0, at |-> "none"]]
    /\ UNCHANGED <<Student, StudentDetails, Course, StudentCourse, autoInc,
                   csvIn, normOut, observed, lastUpdate>>

\* DELETE FROM StudentCourse WHERE StudentID = sid
StmtDelete(c) ==
  /\ calls[c].pc = "delete"
  /\ Store(DeleteEnrollments(DB, calls[c].sid))
  /\ calls' = [calls EXCEPT ![c].pc = LoopHead(calls[c].courses, 1)]
  /\ UNCHANGED <<csvIn, normOut, observed, lastUpdate>>

\* ensure_course: INSERT IGNORE INTO Course
StmtEnsureInsert(c) ==
  /\ calls[c].pc = "ensure_insert"
  /\ Store(InsertIgnoreCourse(DB, calls[c].courses[calls[c].i]))
  /\ calls' = [calls EXCEPT ![c].pc = "ensure_select"]
  /\ UNCHANGED <<csvIn, normOut, observed, lastUpdate>>

\* ensure_course: SELECT CourseID, and the raise when no row comes back
StmtEnsureSelect(c) ==
  /\ calls[c].pc = "ensure_select"
  /\ LET row == SelectCourseID(DB, calls[c].courses[calls[c].i])
     IN  calls' = IF row = {}
                  THEN [calls EXCEPT ![c].pc = "failed", ![c].at = "StateError"]
                  ELSE [calls EXCEPT ![c].pc = "enroll",
                                     ![c].cid = CHOOSE cid \in row : TRUE]
  /\ UNCHANGED <<Student, StudentDetails, Course, StudentCourse, autoInc,
                 csvIn, normOut, observed, lastUpdate>>

\* INSERT IGNORE INTO StudentCourse, then the next course of the loop
StmtEnroll(c) ==
  /\ calls[c].pc = "enroll"
  /\ Store(InsertIgnoreEnrollment(DB, calls[c].sid, calls[c].cid))
  /\ calls' = [calls EXCEPT ![c].i = @ + 1,
                            ![c].pc = LoopHead(calls[c].courses, calls[c].i + 1)]
  /\ UNCHANGED <<csvIn, normOut, observed, lastUpdate>>

\* UPDATE StudentDetails SET CourseS = ", ".join(courses); the call returns
StmtUpdate(c) ==
  /\ calls[c].pc = "update"
  /\ Store(UpdateCourseS(DB, calls[c].sid, join(calls[c].courses)))
  /\ calls' = [calls EXCEPT ![c].pc = "done"]
  /\ lastUpdate' = c
  /\ UNCHANGED <<csvIn, normOut, observed>>

\* the statements of a call
StmtPositions == {"delete", "ensure_insert", "ensure_select", "enroll", "update"}

\* the statement about to run fails in the store: the exception leaves the call,
\* which has no try block, no rollback and no retry
StmtFail(c) ==
  /\ calls[c].pc \in StmtPositions
  /\ calls' = [calls EXCEPT ![c].pc = "failed", ![c].at = calls[c].pc]
  /\ UNCHANGED <<Student, StudentDetails, Course, StudentCourse, autoInc,
                 csvIn, normOut, observed, lastUpdate>>

\* the one call in progress, when it stands between its DELETE and its first
\* INSERT into StudentCourse and no other connection has called; 0 otherwise
CallAfterDelete ==
  IF \E c \in Callers :
       /\ calls[c].pc \in {"ensure_insert", "ensure_select", "enroll"}
       /\ calls[c].i = 1
       /\ \A o \in Callers \ {c} : calls[o].pc = "idle"
  THEN CHOOSE c \in Callers :
         /\ calls[c].pc \in {"ensure_insert", "ensure_select", "enroll"}
         /\ calls[c].i = 1
         /\ \A o \in Callers \ {c} : calls[o].pc = "idle"
  ELSE 0

\* a reader on another connection counts the student's StudentCourse rows
StmtRead ==
  \E sid \in StmtStudents :
    /\ observed' = [rows |-> Cardinality({sc \in StudentCourse : sc.StudentID = sid}),
                    during |-> CallAfterDelete]
    /\ UNCHANGED <<Student, StudentDetails, Course, StudentCourse, autoInc,
                   csvIn, normOut, calls, lastUpdate>>

NextStmt ==
  \/ \E c \in Callers : StmtCall(c)
  \/ \E c \in Callers : StmtDelete(c)
  \/ \E c \in Callers : StmtEnsureInsert(c)
  \/ \E c \in Callers : StmtEnsureSelect(c)
  \/ \E c \in Callers : StmtEnroll(c)
  \/ \E c \in Callers : StmtUpdate(c)
  \/ \E c \in Callers : StmtFail(c)
  \/ StmtRead

SpecStmt == InitStmt /\ [][NextStmt]_vars

(***************************************************************************)
(* Claims about the normalizer (under SpecNorm)                            *)
(***************************************************************************)
\* the raw tokens of the input, as str.split(",") cuts them, each trimmed
TrimmedTokens(text) ==
  LET raw == split(IF text = NULL THEN <<>> ELSE text)
  IN  [i \in 1..Len(raw) |-> strip(raw[i])]

\* the index of the first token that equals name under case folding (0: none)
FirstIndex(tokens, name) ==
  IF \E k \in 1..Len(tokens) : casefold(tokens[k]) = casefold(name)
  THEN CHOOSE k \in 1..Len(tokens) :
         /\ casefold(tokens[k]) = casefold(name)
         /\ \A j \in 1..(k - 1) : casefold(tokens[j]) # casefold(name)
  ELSE 0

\* C4: the output of _normalize_courses holds only trimmed, non-empty names, no
\* two of them equal under case folding, in the order of their first occurrence
\* in the input and with that occurrence's casing, and every non-empty trimmed
\* token of the input equals one of them under case folding.
C4_NormalizeShape ==
  normOut # NotRun =>
    LET tokens == TrimmedTokens(csvIn)
    IN  /\ \A i \in 1..Len(normOut) :
             /\ normOut[i] # <<>>
             /\ ~IsSpace(normOut[i][1]) /\ ~IsSpace(normOut[i][Len(normOut[i])])
        /\ \A i, j \in 1..Len(normOut) :
             i # j => casefold(normOut[i]) # casefold(normOut[j])
        /\ \A i \in 1..Len(normOut) :
             /\ FirstIndex(tokens, normOut[i]) > 0
             /\ normOut[i] = tokens[FirstIndex(tokens, normOut[i])]
        /\ \A i, j \in 1..Len(normOut) :
             i < j => FirstIndex(tokens, normOut[i]) < FirstIndex(tokens, normOut[j])
        /\ \A k \in 1..Len(tokens) :
             tokens[k] # <<>> =>
               \E i \in 1..Len(normOut) : casefold(normOut[i]) = casefold(tokens[k])

\* "A, ,a" has been normalized to ["A"]: a blank token dropped, a blank trimmed,
\* a repeat in another casing dropped
C4_Witness ==
  /\ csvIn = <<"A", ",", " ", ",", "a">>
  /\ normOut = <<<<"A">>>>

\* C5: normalizing the ", "-joined output of _normalize_courses gives that output
\* again.
C5_NormalizeIdempotent ==
  normOut # NotRun => normalize_courses(join(normOut)) = normOut

\* "b,A,a" has been normalized to ["b", "A"], whose CSV form "b, A" differs from
\* the input
C5_Witness ==
  /\ csvIn = <<"b", ",", "A", ",", "a">>
  /\ normOut = <<<<"b">>, <<"A">>>>
  /\ join(normOut) = <<"b", ",", " ", "A">>

(***************************************************************************)
(* Claims about the repository (under Spec).  A claim about what a call    *)
(* leaves behind is stated over the outcome of that call from every        *)
(* reachable store, for every input of the call.                           *)
(***************************************************************************)
SomeStudentIDs == {s.StudentID : s \in Student}

Rows(d, sid) == {sc \in d.StudentCourse : sc.StudentID = sid}

FoldSet(S) == {casefold(n) : n \in S}

Range(seq) == {seq[i] : i \in 1..Len(seq)}

\* the names of S as the one sequence that ascends under the collation
Ascending(S) ==
  CHOOSE seq \in [1..Cardinality(S) -> S] :
    \A i, j \in 1..Cardinality(S) : i < j => NameLess(seq[i], seq[j])

\* C1: for every student with at least one StudentCourse row, the course names
\* reached through StudentCourse equal, under case folding and as a set, the names
\* listed in the student's StudentDetails.CourseS.
C1_JoinTableMatchesLegacy ==
  \A sid \in SomeStudentIDs :
    Rows(DB, sid) # {} =>
      FoldSet(EnrolledNames(DB, sid))
        = FoldSet(Range(normalize_courses(DetailsColumn(DB, sid, "CourseS"))))

\* C2: a second set_student_courses(id, csv) right after the first leaves the
\* student's StudentCourse rows, the Course table and StudentDetails.CourseS as
\* the first left them.
C2_SetCoursesIdempotent ==
  \A sid \in StudentIDs, csv \in CsvInputs :
    LET once == set_student_courses(DB, sid, csv)
        twice == set_student_courses(once.db, sid, csv)
    IN  /\ once.err = "none" /\ twice.err = "none"
        /\ Rows(twice.db, sid) = Rows(once.db, sid)
        /\ twice.db.Course = once.db.Course
        /\ DetailsColumn(twice.db, sid, "CourseS") = DetailsColumn(once.db, sid, "CourseS")

\* student 1 is enrolled in one course and set_student_courses(1, "b, a") replaces
\* that by two enrollments, creating a course on the way
C2_Witness ==
  LET once == set_student_courses(DB, 1, <<"b", ",", " ", "a">>)
  IN  /\ Cardinality(Rows(DB, 1)) = 1
      /\ Cardinality(Rows(once.db, 1)) = 2
      /\ once.db.Course # Course
      /\ DetailsColumn(once.db, 1, "CourseS") # DetailsColumn(DB, 1, "CourseS")

\* C3: insert_student on a store without that id succeeds, and get_student then
\* reports the distinct normalized names of csv in alphabetical order joined by
\* ", ", and the phone number given.
C3_InsertThenGet ==
  \A sid \in StudentIDs \ SomeStudentIDs :
    \A prof \in Profiles, phone \in AnyPhone, csv \in CsvInputs :
      LET r == insert_student(DB, sid, prof, phone, csv)
          row == get_student(r.db, sid)
      IN  /\ r.err = "none"
          /\ row # None
          /\ row.Courses = join(Ascending(Range(normalize_courses(csv))))
          /\ row.PhoneNumber = phone

\* on a store that already holds courses and another student, inserting student 2
\* with "b, a" reads back as "a, b"
C3_Witness ==
  LET r == insert_student(DB, 2, CHOOSE p \in Profiles : TRUE, <<"555-9999">>,
                          <<"b", ",", " ", "a">>)
  IN  /\ SomeStudentIDs = {1}
      /\ Course # {}
      /\ r.err = "none"
      /\ get_student(r.db, 2).Courses = <<"a", ",", " ", "b">>
      /\ get_student(r.db, 2).PhoneNumber = <<"555-9999">>

CaseVariants(name) == {n \in {<<"a">>, <<"A">>, <<"b">>, <<>>} : n # name /\ casefold(n) = casefold(name)}

\* C6: ensure_course(name) twice returns the same CourseID, the second call adds no
\* row and the table holds exactly one row of that name; a name that differs only
\* in casing gets a CourseID of its own.
C6_EnsureCourseIdempotent ==
  \A name \in {<<"a">>, <<"A">>, <<"b">>, <<>>} :
    LET first == ensure_course(DB, name)
        second == ensure_course(first.db, name)
    IN  /\ first.err = "none" /\ second.err = "none"
        /\ second.ret = first.ret
        /\ second.db = first.db
        /\ Cardinality({c \in first.db.Course : c.CourseName = name}) = 1
        /\ \A other \in CaseVariants(name) :
             ensure_course(first.db, other).ret # first.ret

\* course "A" exists, "a" does not: ensure_course("a") adds a row with a new id,
\* and "A" keeps its own
C6_Witness ==
  /\ \E c \in Course : c.CourseName = <<"A">>
  /\ \A c \in Course : c.CourseName # <<"a">>
  /\ ensure_course(DB, <<"a">>).db.Course # Course
  /\ ensure_course(DB, <<"a">>).ret = autoInc
  /\ ensure_course(DB, <<"A">>).ret # autoInc

\* C7: ensure_course raises its state error exactly when the lookup after the
\* insert-or-ignore finds no row, which never happens when the two statements run
\* back to back: the call returns the CourseID of a row with the given name.
C7_EnsureCourseNeverFails ==
  \A name \in {<<"a">>, <<"A">>, <<"b">>, <<>>} :
    LET r == ensure_course(DB, name)
    IN  /\ (r.err = "StateError") <=> (SelectCourseID(InsertIgnoreCourse(DB, name), name) = {})
        /\ r.err = "none"
        /\ \E c \in r.db.Course : c.CourseID = r.ret /\ c.CourseName = name

\* a store with courses, none named "b": ensure_course("b") inserts and finds it
C7_Witness ==
  /\ Course # {}
  /\ SelectCourseID(DB, <<"b">>) = {}
  /\ ensure_course(DB, <<"b">>).err = "none"
  /\ ensure_course(DB, <<"b">>).ret = autoInc

\* C8: a student with a StudentDetails row and no StudentCourse row is reported
\* with Courses equal to StudentDetails.CourseS, by get_student and by the listing.
C8_FallbackToLegacy ==
  \A sid \in SomeStudentIDs :
    (Rows(DB, sid) = {} /\ \E r \in StudentDetails : r.StudentID = sid) =>
      /\ get_student(DB, sid).Courses = DetailsColumn(DB, sid, "CourseS")
      /\ \E i \in 1..Len(list_students(DB, NoStudentID)) :
           /\ list_students(DB, NoStudentID)[i].StudentID = sid
           /\ list_students(DB, NoStudentID)[i].Courses = DetailsColumn(DB, sid, "CourseS")

\* student 1 keeps the legacy text "a" after the course was deleted: no enrollment
\* row is left and the report is "a"
C8_Witness ==
  /\ 1 \in SomeStudentIDs
  /\ Rows(DB, 1) = {}
  /\ DetailsColumn(DB, 1, "CourseS") = <<"a">>
  /\ get_student(DB, 1).Courses = <<"a">>

DescendingIDs(rows) ==
  /\ \A i, j \in 1..Len(rows) : i < j => rows[i].StudentID > rows[j].StudentID
  /\ {rows[i].StudentID : i \in 1..Len(rows)} = SomeStudentIDs

\* C9 as stated: a student with at least one StudentCourse row is reported with the
\* enrolled names in alphabetical order joined by ", ", whatever CourseS holds, and
\* the listing is in descending StudentID order.
C9_Original ==
  /\ \A sid \in SomeStudentIDs :
       Rows(DB, sid) # {} =>
         get_student(DB, sid).Courses = join(Ascending(EnrolledNames(DB, sid)))
  /\ DescendingIDs(list_students(DB, NoStudentID))

\* C9 as amended: the same, except that when the joined names are the empty text
\* (the student's only course has the empty name) the report is CourseS.
C9_EnrolledNamesReported ==
  /\ \A sid \in SomeStudentIDs :
       Rows(DB, sid) # {} =>
         LET names == join(Ascending(EnrolledNames(DB, sid)))
         IN  get_student(DB, sid).Courses =
               IF names # <<>> THEN names ELSE DetailsColumn(DB, sid, "CourseS")
  /\ DescendingIDs(list_students(DB, NoStudentID))

\* two students are listed; student 1 has the legacy text "b, a", then a course
\* of theirs was renamed: the report is "A, b", not the legacy text
C9_Witness ==
  /\ SomeStudentIDs = {1, 2}
  /\ Len(list_students(DB, NoStudentID)) = 2
  /\ DetailsColumn(DB, 1, "CourseS") = <<"b", ",", " ", "a">>
  /\ Cardinality(Rows(DB, 1)) = 2
  /\ get_student(DB, 1).Courses = <<"A", ",", " ", "b">>

\* C10: insert_student with an id that exists raises the unique-key violation and
\* leaves every table as it was.
C10_DuplicateInsertRejected ==
  \A sid \in SomeStudentIDs :
    \A prof \in Profiles, phone \in AnyPhone, csv \in CsvInputs :
      LET r == insert_student(DB, sid, prof, phone, csv)
      IN  r.err = "IntegrityError" /\ r.db = DB

\* student 1 exists with two enrollments; inserting id 1 again with another
\* profile, phone and course list is rejected
C10_Witness ==
  /\ Cardinality(Rows(DB, 1)) = 2
  /\ \E prof \in Profiles :
       /\ \A s \in Student : s.StudentID = 1 => s.Name # prof.Name
       /\ insert_student(DB, 1, prof, <<"555-9999">>, <<"a">>).err = "IntegrityError"

\* INSERT INTO Student: the store after insert_student's first statement
WithStudentRow(d, sid, prof) ==
  [d EXCEPT !.Student = @ \cup {[StudentID |-> sid, Name |-> prof.Name,
                                 Age |-> prof.Age, Email |-> prof.Email]}]

\* the stores upsert_student_details(sid, ...) is called on for an existing
\* student: the store as it is when sid exists (a details row is there), and the
\* store right after insert_student's INSERT when it does not (no details row yet)
StoresWithStudent(sid) ==
  IF HasStudent(DB, sid) THEN {DB}
  ELSE {WithStudentRow(DB, sid, prof) : prof \in Profiles}

DetailsRows(d, sid) == {r \in d.StudentDetails : r.StudentID = sid}

\* C12: upsert_student_details(id, phone, csv) for an existing student, with or
\* without a details row before, leaves exactly one StudentDetails row for id,
\* holding phone and the ", "-joined normalized course list of csv.
C12_UpsertLeavesNormalizedRow ==
  \A sid \in StudentIDs, phone \in AnyPhone, csv \in CsvInputs :
    \A d \in StoresWithStudent(sid) :
      LET r == upsert_student_details(d, sid, phone, csv)
      IN  /\ r.err = "none"
          /\ Cardinality(DetailsRows(r.db, sid)) = 1
          /\ \A row \in DetailsRows(r.db, sid) :
               /\ row.PhoneNumber = phone
               /\ row.CourseS = join(normalize_courses(csv))

\* student 1 has the phone "555-1234" and the legacy text "b, a"; the upsert with
\* "555-9999" and "A,a" leaves one row with that phone and the text "A", not "A,a";
\* student 2 does not exist yet and gets its row from the same call
C12_Witness ==
  LET r == upsert_student_details(DB, 1, <<"555-9999">>, <<"A", ",", "a">>)
  IN  /\ DetailsRows(DB, 1) =
           {[StudentID |-> 1, PhoneNumber |-> <<"555-1234">>,
             CourseS |-> <<"b", ",", " ", "a">>]}
      /\ DetailsRows(r.db, 1) =
           {[StudentID |-> 1, PhoneNumber |-> <<"555-9999">>, CourseS |-> <<"A">>]}
      /\ ~HasStudent(DB, 2)
      /\ \A d \in StoresWithStudent(2) :
           /\ DetailsRows(d, 2) = {}
           /\ Cardinality(DetailsRows(
                upsert_student_details(d, 2, <<"555-9999">>, <<"a">>).db, 2)) = 1

\* C13: update_student sets Name, Age and Email of the Student row with the given
\* id and nothing else: StudentDetails, StudentCourse, Course and the other
\* Student rows stay, and with no such student the store stays as it is.
C13_UpdateStudentFrame ==
  \A sid \in StudentIDs, prof \in Profiles :
    LET r == update_student(DB, sid, prof)
    IN  /\ r.err = "none"
        /\ r.db.StudentDetails = StudentDetails
        /\ r.db.StudentCourse = StudentCourse
        /\ r.db.Course = Course
        /\ r.db.autoInc = autoInc
        /\ {s \in r.db.Student : s.StudentID # sid} = {s \in Student : s.StudentID # sid}
        /\ {s \in r.db.Student : s.StudentID = sid} =
             IF HasStudent(DB, sid)
             THEN {[StudentID |-> sid, Name |-> prof.Name, Age |-> prof.Age,
                    Email |-> prof.Email]}
             ELSE {}

\* two students named Alice, student 1 with enrollments: update_student(1, Bob)
\* changes the row of student 1 and leaves student 2 named Alice
C13_Witness ==
  LET bob == CHOOSE p \in Profiles : p.Name = "Bob"
      r == update_student(DB, 1, bob)
  IN  /\ SomeStudentIDs = {1, 2}
      /\ \A s \in Student : s.Name = "Alice"
      /\ Rows(DB, 1) # {}
      /\ r.db.Student # Student
      /\ \E s \in r.db.Student : s.StudentID = 1 /\ s.Name = "Bob" /\ s.Age = 21
      /\ \E s \in r.db.Student : s.StudentID = 2 /\ s.Name = "Alice"

\* C14: after delete_course(cid), list_courses() has no entry for cid and no
\* StudentCourse row refers to cid; the other Course rows and the enrollments in
\* other courses are as before.
C14_DeleteCourseRemovesIt ==
  \A cid \in CourseIDs :
    LET r == delete_course(DB, cid)
        listed == list_courses(r.db)
    IN  /\ r.err = "none"
        /\ \A i \in 1..Len(listed) : listed[i].CourseID # cid
        /\ \A sc \in r.db.StudentCourse : sc.CourseID # cid
        /\ r.db.Course = {c \in Course : c.CourseID # cid}
        /\ r.db.StudentCourse = {sc \in StudentCourse : sc.CourseID # cid}
        /\ Len(listed) = Cardinality({c \in Course : c.CourseID # cid})

\* student 1 is enrolled in courses 1 and 2: delete_course(1) leaves course 2
\* listed with its one student, and one enrollment row
C14_Witness ==
  LET r == delete_course(DB, 1)
  IN  /\ Rows(DB, 1) = {[StudentID |-> 1, CourseID |-> 1], [StudentID |-> 1, CourseID |-> 2]}
      /\ Len(list_courses(DB)) = 2
      /\ Len(list_courses(r.db)) = 1
      /\ list_courses(r.db)[1].CourseID = 2
      /\ list_courses(r.db)[1].StudentCount >= 1
      /\ Rows(r.db, 1) = {[StudentID |-> 1, CourseID |-> 2]}

\* C15: rename_course and delete_course leave every StudentDetails row, and so
\* every CourseS text, as it was.
C15_CourseEditsKeepLegacyText ==
  \A cid \in CourseIDs :
    /\ delete_course(DB, cid).db.StudentDetails = StudentDetails
    /\ \A name \in RenameNames \cup {<<"b">>} :
         rename_course(DB, cid, name).db.StudentDetails = StudentDetails

\* student 1 is enrolled in course 1, named "a", with the legacy text "a":
\* renaming the course to "b" and deleting it both change the Course table and
\* leave the text "a"
C15_Witness ==
  LET renamed == rename_course(DB, 1, <<"b">>)
      deleted == delete_course(DB, 1)
  IN  /\ [CourseID |-> 1, CourseName |-> <<"a">>] \in Course
      /\ Rows(DB, 1) = {[StudentID |-> 1, CourseID |-> 1]}
      /\ renamed.err = "none"
      /\ EnrolledNames(renamed.db, 1) = {<<"b">>}
      /\ DetailsColumn(renamed.db, 1, "CourseS") = <<"a">>
      /\ Rows(deleted.db, 1) = {}
      /\ DetailsColumn(deleted.db, 1, "CourseS") = <<"a">>

\* C16: after set_student_courses(id, csv) the student is enrolled in exactly the
\* Course rows named by the normalized list of csv, one per name (none for an
\* empty list), and the StudentCourse rows of the other students are as before.
C16_SetCoursesReplaces ==
  \A sid \in SomeStudentIDs, csv \in CsvInputs :
    LET r == set_student_courses(DB, sid, csv)
        names == Range(normalize_courses(csv))
    IN  /\ r.err = "none"
        /\ {sc.CourseID : sc \in Rows(r.db, sid)}
             = {c.CourseID : c \in {x \in r.db.Course : x.CourseName \in names}}
        /\ Cardinality(Rows(r.db, sid)) = Cardinality(names)
        /\ {sc \in r.db.StudentCourse : sc.StudentID # sid}
             = {sc \in StudentCourse : sc.StudentID # sid}

\* students 1 and 2 are both enrolled in courses 1 ("b") and 2 ("a"):
\* set_student_courses(1, "a") leaves student 1 in course 2 alone, with None it
\* leaves student 1 in none, and student 2 keeps both either way
C16_Witness ==
  LET one == set_student_courses(DB, 1, <<"a">>)
      none == set_student_courses(DB, 1, NULL)
  IN  /\ Course = {[CourseID |-> 1, CourseName |-> <<"b">>],
                   [CourseID |-> 2, CourseName |-> <<"a">>]}
      /\ Cardinality(Rows(DB, 1)) = 2 /\ Cardinality(Rows(DB, 2)) = 2
      /\ Rows(one.db, 1) = {[StudentID |-> 1, CourseID |-> 2]}
      /\ Rows(none.db, 1) = {}
      /\ Rows(one.db, 2) = Rows(DB, 2) /\ Rows(none.db, 2) = Rows(DB, 2)

\* C18: after delete_student(id), get_student(id) returns None and no
\* StudentDetails or StudentCourse row of that id is left; the Course table and
\* the rows of every other student are as before.
C18_DeleteStudentRemovesAll ==
  \A sid \in StudentIDs :
    LET r == delete_student(DB, sid)
    IN  /\ r.err = "none"
        /\ get_student(r.db, sid) = None
        /\ DetailsRows(r.db, sid) = {}
        /\ Rows(r.db, sid) = {}
        /\ r.db.Course = Course
        /\ r.db.Student = {s \in Student : s.StudentID # sid}
        /\ r.db.StudentDetails = {x \in StudentDetails : x.StudentID # sid}
        /\ r.db.StudentCourse = {sc \in StudentCourse : sc.StudentID # sid}

\* students 1 and 2 are both enrolled: delete_student(1) leaves no row of
\* student 1, and student 2 is still reported with its courses
C18_Witness ==
  LET r == delete_student(DB, 1)
  IN  /\ Rows(DB, 1) # {} /\ Rows(DB, 2) # {}
      /\ DetailsRows(DB, 1) # {}
      /\ get_student(DB, 1) # None
      /\ get_student(r.db, 1) = None
      /\ get_student(r.db, 2) = get_student(DB, 2)
      /\ Len(list_students(r.db, NoStudentID)) = 1

\* the outcomes of every student-side call on the store as it is
StudentSideOutcomes ==
  {insert_student(DB, sid, prof, phone, csv) :
     sid \in StudentIDs, prof \in Profiles, phone \in AnyPhone, csv \in CsvInputs}
  \cup {upsert_student_details(DB, sid, phone, csv) :
          sid \in StudentIDs, phone \in AnyPhone, csv \in CsvInputs}
  \cup {set_student_courses(DB, sid, csv) : sid \in StudentIDs, csv \in CsvInputs}
  \cup {update_student(DB, sid, prof) : sid \in StudentIDs, prof \in Profiles}
  \cup {delete_student(DB, sid) : sid \in StudentIDs}

\* C20: no student-side operation removes or renames a Course row, and a course
\* without any enrollment is still listed by list_courses, with StudentCount 0.
C20_StudentSideKeepsCourses ==
  /\ \A r \in StudentSideOutcomes : Course \subseteq r.db.Course
  /\ \A c \in Course :
       (\A sc \in StudentCourse : sc.CourseID # c.CourseID) =>
         \E i \in 1..Len(list_courses(DB)) :
           list_courses(DB)[i] = [CourseID |-> c.CourseID, CourseName |-> c.CourseName,
                                  StudentCount |-> 0]

\* student 1 is the only one enrolled in course 1 ("b") and is also in course 2:
\* after set_student_courses(1, "a"), and after delete_student(1), course 1 is
\* still in the table and listed with StudentCount 0
C20_Witness ==
  LET r == set_student_courses(DB, 1, <<"a">>)
      gone == delete_student(DB, 1)
  IN  /\ [CourseID |-> 1, CourseName |-> <<"b">>] \in Course
      /\ {sc \in StudentCourse : sc.CourseID = 1} = {[StudentID |-> 1, CourseID |-> 1]}
      /\ Cardinality(Rows(DB, 1)) = 2
      /\ r.db.Course = Course /\ gone.db.Course = Course
      /\ \E i \in 1..Len(list_courses(r.db)) :
           list_courses(r.db)[i] = [CourseID |-> 1, CourseName |-> <<"b">>,
                                    StudentCount |-> 0]

(***************************************************************************)
(* Claims about set_student_courses statement by statement (under SpecStmt) *)
(***************************************************************************)
\* C11: a reader that counts the student's StudentCourse rows while the only call
\* in progress stands between its DELETE and its first re-insert counts zero rows,
\* whatever the old and the new course lists are.
C11_ReaderSeesNoRows ==
  observed.during # 0 => observed.rows = 0

\* such a read happened, for a student who was enrolled and a new list with a name
C11_Witness ==
  /\ observed.during # 0
  /\ observed.rows = 0
  /\ calls[observed.during].courses # <<>>
  /\ Rows(StmtInitDB, calls[observed.during].sid) # {}

\* the statements a call may still run
StmtStep(c) ==
  \/ StmtDelete(c) \/ StmtEnsureInsert(c) \/ StmtEnsureSelect(c)
  \/ StmtEnroll(c) \/ StmtUpdate(c)

\* a call, alone on the store, that a failing statement ended after its DELETE
AbortedAfterDelete(c) ==
  /\ calls[c].pc = "failed"
  /\ calls[c].at \in StmtPositions \ {"delete"}
  /\ \A o \in Callers \ {c} : calls[o].pc = "idle"

\* C17: after a statement fails between the DELETE and the end of the final UPDATE,
\* the call has ended with the error and runs no further statement, the student's
\* rows are those of the courses the loop had finished (a prefix of the normalized
\* list) and CourseS holds the value it had before the call.
C17_AbortLeavesPrefix ==
  \A c \in Callers :
    AbortedAfterDelete(c) =>
      LET sid == calls[c].sid
          done == {calls[c].courses[j] : j \in 1..(calls[c].i - 1)}
      IN  /\ EnrolledNames(DB, sid) = done
          /\ Cardinality(Rows(DB, sid)) = calls[c].i - 1
          /\ DetailsColumn(DB, sid, "CourseS") = DetailsColumn(StmtInitDB, sid, "CourseS")
          /\ ~ ENABLED StmtStep(c)

\* the call for "b, A" failed at its second course: rows for "b" alone, CourseS "a"
C17_Witness ==
  \E c \in Callers :
    /\ AbortedAfterDelete(c)
    /\ calls[c].courses = << <<"b">>, <<"A">> >>
    /\ calls[c].i = 2
    /\ EnrolledNames(DB, calls[c].sid) = {<<"b">>}
    /\ DetailsColumn(DB, calls[c].sid, "CourseS") = <<"a">>

\* both connections called with different lists and both calls returned
BothDone ==
  /\ \A c \in Callers : calls[c].pc = "done"
  /\ \A c, o \in Callers : c # o => calls[c].courses # calls[o].courses

\* C19: when two calls for the same student with different lists have both
\* returned, the names the student is enrolled in all come from the two
\* normalized lists, and CourseS is the joined list of the call whose UPDATE ran
\* last.
C19_InterleavedCalls ==
  BothDone =>
    \A sid \in StmtStudents :
      /\ EnrolledNames(DB, sid) \subseteq
            UNION {Range(calls[c].courses) : c \in Callers}
      /\ DetailsColumn(DB, sid, "CourseS") = join(calls[lastUpdate].courses)

\* an outcome no serial order gives: the rows of the call for "b", the CourseS of
\* the call for ""
C19_Witness ==
  /\ BothDone
  /\ calls[lastUpdate].courses = <<>>
  /\ EnrolledNames(DB, 1) = {<<"b">>}
  /\ DetailsColumn(DB, 1, "CourseS") = <<>>

====
